---------------------------- MODULE Spec2Model ----------------------------
(***************************************************************************)
(* A model of the IMathics Jupyter kernel (imathics/kernel.py):            *)
(*   - parse_lines, the generator that accumulates input lines into        *)
(*     statements, and do_is_complete, which drains it with list();        *)
(*   - find_symbol_name, the cursor-relative tokeniser loop, and           *)
(*     do_complete and do_inspect, which are built on it;                  *)
(*   - do_execute and the callbacks the evaluation engine drives.          *)
(*                                                                         *)
(* Python values carry their type: a str is a sequence of one-character    *)
(* strings, a list of lines is a sequence of such sequences, and where the *)
(* two can meet (the argument of SingleLineFeeder) the value is tagged.    *)
(*                                                                         *)
(* The parser, the tokeniser and the evaluation engine belong to the       *)
(* mathics package, which is not part of this repository.  They are        *)
(* modelled by their interface as kernel.py uses it: the parser returns an *)
(* expression or None or raises IncompleteSyntaxError or another           *)
(* TranslateError; the tokeniser returns tokens ending in END and raises   *)
(* ScanError on a character that starts no token (the doctests at          *)
(* kernel.py:328-331 rely on the scan then going on behind that            *)
(* character); the engine calls the output callbacks and then returns a    *)
(* result or raises.                                                       *)
(*                                                                         *)
(* setup.py:100-101 declares Python 2 only, so "raise StopIteration" in a  *)
(* generator body (kernel.py:62) ends the generator as a return does.      *)
(***************************************************************************)
EXTENDS Integers, Sequences, FiniteSets, TLC

(***************************************************************************)
(* Bounds of the model.                                                    *)
(***************************************************************************)
MaxCodeLen == 5
MaxPieces == 4
MaxEvents == 2
MaxLineNo == 2

(***************************************************************************)
(* Python str and list helpers.                                            *)
(***************************************************************************)
NL == "\n"
BACKSLASH == "\\"

\* the characters of the code handed to do_is_complete
CodeChars == {"a", "b", BACKSLASH, NL}

Codes == UNION {[1..n -> CodeChars] : n \in 0..MaxCodeLen}

RECURSIVE Segments(_, _)
\* the pieces of s between line breaks, cur being the piece under construction
Segments(s, cur) ==
    IF s = <<>> THEN <<cur>>
    ELSE IF Head(s) = NL THEN <<cur>> \o Segments(Tail(s), <<>>)
    ELSE Segments(Tail(s), Append(cur, Head(s)))

\* str.splitlines(): the lines without their line breaks; a final line break
\* opens no further (empty) line
splitlines(s) ==
    LET segs == Segments(s, <<>>)
    IN  IF segs[Len(segs)] = <<>> THEN SubSeq(segs, 1, Len(segs) - 1) ELSE segs

\* str.endswith(ch) for a one-character ch
endswith(s, ch) == Len(s) > 0 /\ s[Len(s)] = ch

RECURSIVE rstrip(_, _)
\* str.rstrip(ch): every trailing ch removed
rstrip(s, ch) ==
    IF endswith(s, ch) THEN rstrip(SubSeq(s, 1, Len(s) - 1), ch) ELSE s

\* Python values whose type matters where they are used
StrVal(s) == [type |-> "str", str |-> s, list |-> <<>>]
ListVal(l) == [type |-> "list", str |-> <<>>, list |-> l]
NoVal == [type |-> "NoneType", str |-> <<>>, list |-> <<>>]

(***************************************************************************)
(* Exceptions of mathics.core.parser and the parser interface.             *)
(***************************************************************************)
NoExc == [cls |-> "None", pos |-> 0, origin |-> "none"]

\* IncompleteSyntaxError(pos) as parse_lines constructs it for a continuation
IncompleteSyntaxError(pos) ==
    [cls |-> "IncompleteSyntaxError", pos |-> pos, origin |-> "parse_lines"]

\* the exceptions the parser raises
ParserIncomplete == [cls |-> "IncompleteSyntaxError", pos |-> 0, origin |-> "parser"]
ParserInvalid == [cls |-> "TranslateError", pos |-> 0, origin |-> "parser"]

\* isinstance(exc, cls): IncompleteSyntaxError derives from TranslateError
isinstance(exc, cls) ==
    \/ exc.cls = cls
    \/ exc.cls = "IncompleteSyntaxError" /\ cls = "TranslateError"

SingleLineFeeder(code) == [code |-> code]

\* the expression the parser builds from what the feeder holds, under the
\* definitions in force at the time of the parse
Expression(feeder, definitions) == [source |-> feeder.code, definitions |-> definitions]

NoExpression == [source |-> NoVal, definitions |-> 0]

\* parse(feeder, definitions): what a parse attempt can come to.  The result
\* depends on the feeder and on the mutable definitions (kernel.py:32-33)
\* inside a package this repository does not hold.
parse(feeder, definitions) ==
    {"expression", "None", "IncompleteSyntaxError", "TranslateError"}

(***************************************************************************)
(* State.                                                                  *)
(***************************************************************************)
VARIABLES
    \* ---- parse_lines and its consumer
    control,          \* who runs: "idle", "consumer", "generator", "returned"
    consumer,         \* "list" (do_is_complete) or "evaluate" (kernel.py:32-33)
    code,             \* the argument lines of parse_lines before splitlines
    gen_pc,           \* "none", "created", "loop", "yield", "closed"
    lines,            \* parse_lines: lines, after splitlines
    idx,              \* parse_lines: lines consumed by the for loop
    query,            \* parse_lines: query
    incomplete_exc,   \* parse_lines: incomplete_exc
    expression,       \* parse_lines: expression
    gen_raised,       \* the exception the generator ended with, or NoExc
    outbox,           \* yielded values next() has not yet returned
    collected,        \* the consumer's statements, in the order received
    definitions,      \* evaluations applied to the definitions by the consumer
    requests,         \* next() calls made on the generator
    trail,            \* what the processing of each line came to
    status            \* do_is_complete: the status returned

parse_vars ==
    <<control, consumer, code, gen_pc, lines, idx, query, incomplete_exc,
      expression, gen_raised, outbox, collected, definitions, requests,
      trail, status>>

VARIABLES
    \* ---- find_symbol_name and do_complete
    handler,          \* the request being served: "none", "do_complete"
                      \* or "do_inspect"
    fs_pc,            \* "idle", "scan" (in the while loop), "done", "returned"
    fs_code,          \* find_symbol_name: code
    cursor_pos,       \* find_symbol_name: cursor_pos
    tokeniser_pos,    \* find_symbol_name: tokeniser.pos
    start_pos,        \* find_symbol_name: start_pos
    end_pos,          \* find_symbol_name: end_pos
    name,             \* find_symbol_name: name
    reply             \* do_complete, do_inspect: the content returned

resolve_vars ==
    <<handler, fs_pc, fs_code, cursor_pos, tokeniser_pos, start_pos, end_pos,
      name, reply>>

VARIABLES
    \* ---- do_execute and the output callbacks
    ex_pc,            \* "idle", "evaluating", "returned", "escaped"
    response,         \* do_execute: response
    iopub,            \* the messages send_response has put on iopub_socket
    emitted,          \* the output events of the engine, in the order emitted
    line_no,          \* self.definitions.get_line_no()
    raised,           \* the exception raised inside the try block, or "None"
    result,           \* do_execute: result, or "unset" while there is none
    prev_status       \* the status of the response to the request before

exec_vars ==
    <<ex_pc, response, iopub, emitted, line_no, raised, result, prev_status>>

VARIABLES
    \* ---- history
    prior             \* an earlier call of find_symbol_name: its arguments,
                      \* what it returned, and whether a call with other
                      \* arguments has been made since

vars == <<parse_vars, resolve_vars, exec_vars, prior>>

not_parse_vars == <<resolve_vars, exec_vars, prior>>
not_resolve_vars == <<parse_vars, exec_vars, prior>>
not_exec_vars == <<parse_vars, resolve_vars, prior>>

ParseInit ==
    /\ control = "idle"
    /\ consumer = "list"
    /\ code = <<>>
    /\ gen_pc = "none"
    /\ lines = <<>>
    /\ idx = 0
    /\ query = <<>>
    /\ incomplete_exc = NoExc
    /\ expression = NoExpression
    /\ gen_raised = NoExc
    /\ outbox = <<>>
    /\ collected = <<>>
    /\ definitions = 0
    /\ requests = 0
    /\ trail = <<>>
    /\ status = "none"

\* Python None where an offset or a name is expected
None == -1
NoneName == <<"None">>

ResolveInit ==
    /\ handler = "none"
    /\ fs_pc = "idle"
    /\ fs_code = <<>>
    /\ cursor_pos = 0
    /\ tokeniser_pos = 0
    /\ start_pos = None
    /\ end_pos = None
    /\ name = NoneName
    /\ reply = [status |-> "none", matches |-> <<>>, cursor_start |-> None,
                cursor_end |-> None]

\* kernel.py:131-134
NewResponse ==
    [payload |-> <<>>, user_expressions |-> <<>>, status |-> "unset",
     ename |-> "unset", traceback |-> FALSE, execution_count |-> None]

\* kernel.py:115-119: the line number is reset when the kernel is built
ExecInit ==
    /\ ex_pc = "idle"
    /\ response = NewResponse
    /\ iopub = <<>>
    /\ emitted = <<>>
    /\ line_no = 0
    /\ raised = "None"
    /\ result = "unset"
    /\ prev_status = "none"

\* no call of find_symbol_name is remembered
NoPrior ==
    [code |-> <<>>, cursor_pos |-> None, start_pos |-> None, end_pos |-> None,
     name |-> NoneName, others |-> FALSE]

Init == ParseInit /\ ResolveInit /\ ExecInit /\ prior = NoPrior


(***************************************************************************)
(* parse_lines (kernel.py:24-62), one action per path through an iteration *)
(* of its for loop, and its consumer.                                      *)
(***************************************************************************)

\* what the processing of one line came to: the line, the path taken, the
\* feeder of the parse attempt if one was made, the buffer it was made with,
\* and incomplete_exc before and after
Outcome(kind, feeder, buffer, before, after) ==
    [line |-> idx + 1, kind |-> kind, feeder |-> feeder, buffer |-> buffer,
     before |-> before, after |-> after]

\* a call of parse_lines(code, definitions): the generator object is created,
\* its body has not started (kernel.py:311 for do_is_complete)
StartParseLines ==
    /\ UNCHANGED not_parse_vars
    /\ control = "idle"
    /\ \E c \in Codes, k \in {"list", "evaluate"} :
          /\ code' = c
          /\ consumer' = k
    /\ control' = "consumer"
    /\ gen_pc' = "created"
    /\ lines' = <<>>
    /\ idx' = 0
    /\ query' = <<>>
    /\ incomplete_exc' = NoExc
    /\ expression' = NoExpression
    /\ gen_raised' = NoExc
    /\ outbox' = <<>>
    /\ collected' = <<>>
    /\ definitions' = 0
    /\ requests' = 0
    /\ trail' = <<>>
    /\ status' = "none"

\* kernel.py:35-38, run by the first next()
GenStart ==
    /\ UNCHANGED not_parse_vars
    /\ control = "generator"
    /\ gen_pc = "created"
    /\ query' = <<>>
    /\ lines' = splitlines(code)
    /\ incomplete_exc' = NoExc
    /\ idx' = 0
    /\ gen_pc' = "loop"
    /\ UNCHANGED <<control, consumer, code, expression, gen_raised, outbox,
                   collected, definitions, requests, trail, status>>

InLoop == control = "generator" /\ gen_pc = "loop" /\ idx < Len(lines)

line == lines[idx + 1]

SeparatorNone == <<>>

\* what an empty line adds to the buffer (kernel.py:41)
Separator == <<" ">>

\* kernel.py:40-42
LineEmpty ==
    /\ UNCHANGED not_parse_vars
    /\ InLoop
    /\ line = <<>>
    /\ query' = query \o Separator
    /\ idx' = idx + 1
    /\ trail' = Append(trail, Outcome("empty", NoVal, query', incomplete_exc,
                                       incomplete_exc))
    /\ UNCHANGED <<control, consumer, code, gen_pc, lines, incomplete_exc,
                   expression, gen_raised, outbox, collected, definitions,
                   requests, status>>

\* kernel.py:43-47
LineContinuation ==
    /\ UNCHANGED not_parse_vars
    /\ InLoop
    /\ line # <<>>
    /\ endswith(query \o line, BACKSLASH)
    /\ query' = rstrip(query \o line, BACKSLASH)
    /\ incomplete_exc' = IncompleteSyntaxError(Len(query') - 1)
    /\ idx' = idx + 1
    /\ trail' = Append(trail, Outcome("continuation", NoVal, query',
                                       incomplete_exc, incomplete_exc'))
    /\ UNCHANGED <<control, consumer, code, gen_pc, lines, expression,
                   gen_raised, outbox, collected, definitions, requests, status>>

\* kernel.py:43-44, 48-49: the line is appended and a parse is attempted
Attempt(came) ==
    /\ InLoop
    /\ line # <<>>
    /\ ~endswith(query \o line, BACKSLASH)
    /\ came \in parse(SingleLineFeeder(ListVal(lines)), definitions)

CaughtDropped(exc) == NoExc

\* kernel.py:50-51: the exception caught is the one recorded
Caught(exc) == exc

\* kernel.py:50-51
ParseIncomplete ==
    /\ UNCHANGED not_parse_vars
    /\ Attempt("IncompleteSyntaxError")
    /\ query' = query \o line
    /\ incomplete_exc' = Caught(ParserIncomplete)
    /\ idx' = idx + 1
    /\ trail' = Append(trail, Outcome("incomplete", ListVal(lines), query',
                                       incomplete_exc, incomplete_exc'))
    /\ UNCHANGED <<control, consumer, code, gen_pc, lines, expression,
                   gen_raised, outbox, collected, definitions, requests, status>>

\* kernel.py:49: a TranslateError that is no IncompleteSyntaxError is not
\* handled and ends the generator
ParseError ==
    /\ UNCHANGED not_parse_vars
    /\ Attempt("TranslateError")
    /\ query' = query \o line
    /\ gen_raised' = ParserInvalid
    /\ gen_pc' = "closed"
    /\ control' = "consumer"
    /\ trail' = Append(trail, Outcome("error", ListVal(lines), query',
                                       incomplete_exc, incomplete_exc))
    /\ UNCHANGED <<consumer, code, lines, idx, incomplete_exc, expression,
                   outbox, collected, definitions, requests, status>>

ClearedExcKept(exc) == exc

\* incomplete_exc once a parse has succeeded (kernel.py:56)
ClearedExc(exc) == NoExc

\* kernel.py:52-53, 55-56 with expression None
ParseNothing ==
    /\ UNCHANGED not_parse_vars
    /\ Attempt("None")
    /\ expression' = NoExpression
    /\ query' = <<>>
    /\ incomplete_exc' = ClearedExc(incomplete_exc)
    /\ idx' = idx + 1
    /\ trail' = Append(trail, Outcome("nothing", ListVal(lines), query \o line,
                                       incomplete_exc, incomplete_exc'))
    /\ UNCHANGED <<control, consumer, code, gen_pc, lines, gen_raised, outbox,
                   collected, definitions, requests, status>>

YieldToEager == "generator"

\* who runs once a value is yielded: the generator is suspended (kernel.py:54)
YieldTo == "consumer"

\* kernel.py:52-54: the generator yields the expression
ParseYield ==
    /\ UNCHANGED not_parse_vars
    /\ Attempt("expression")
    /\ query' = query \o line
    /\ expression' = Expression(SingleLineFeeder(ListVal(lines)), definitions)
    /\ outbox' = Append(outbox, expression')
    /\ gen_pc' = "yield"
    /\ control' = YieldTo
    /\ UNCHANGED <<consumer, code, lines, idx, incomplete_exc, gen_raised,
                   collected, definitions, requests, trail, status>>

\* kernel.py:55-56, run when the generator is resumed after its yield
ResumeAfterYield ==
    /\ UNCHANGED not_parse_vars
    /\ control = "generator"
    /\ gen_pc = "yield"
    /\ query' = <<>>
    /\ incomplete_exc' = ClearedExc(incomplete_exc)
    /\ idx' = idx + 1
    /\ gen_pc' = "loop"
    /\ trail' = Append(trail, Outcome("yield", expression.source, query,
                                       incomplete_exc, incomplete_exc'))
    /\ UNCHANGED <<control, consumer, code, lines, expression, gen_raised,
                   outbox, collected, definitions, requests, status>>

AfterLoop == control = "generator" /\ gen_pc = "loop" /\ idx = Len(lines)

\* kernel.py:58-60
RaiseIncomplete ==
    /\ UNCHANGED not_parse_vars
    /\ AfterLoop
    /\ incomplete_exc # NoExc
    /\ gen_raised' = incomplete_exc
    /\ gen_pc' = "closed"
    /\ control' = "consumer"
    /\ UNCHANGED <<consumer, code, lines, idx, query, incomplete_exc,
                   expression, outbox, collected, definitions, requests,
                   trail, status>>

\* kernel.py:62
RaiseStopIteration ==
    /\ UNCHANGED not_parse_vars
    /\ AfterLoop
    /\ incomplete_exc = NoExc
    /\ gen_pc' = "closed"
    /\ control' = "consumer"
    /\ UNCHANGED <<consumer, code, lines, idx, query, incomplete_exc,
                   expression, gen_raised, outbox, collected, definitions,
                   requests, trail, status>>

\* next() on the generator: list() at kernel.py:311, or the loop of a
\* consumer that evaluates each statement
ConsumerNext ==
    /\ UNCHANGED not_parse_vars
    /\ control = "consumer"
    /\ gen_pc \in {"created", "yield"}
    /\ outbox = <<>>
    /\ control' = "generator"
    /\ requests' = requests + 1
    /\ UNCHANGED <<consumer, code, gen_pc, lines, idx, query, incomplete_exc,
                   expression, gen_raised, outbox, collected, definitions,
                   trail, status>>

\* next() returns a statement: list() appends it; a consumer that evaluates
\* it changes the definitions (kernel.py:32-33)
ConsumerTake ==
    /\ UNCHANGED not_parse_vars
    /\ control = "consumer"
    /\ outbox # <<>>
    /\ collected' = Append(collected, Head(outbox))
    /\ outbox' = Tail(outbox)
    /\ definitions' = IF consumer = "evaluate" THEN definitions + 1 ELSE definitions
    /\ UNCHANGED <<control, consumer, code, gen_pc, lines, idx, query,
                   incomplete_exc, expression, gen_raised, requests, trail,
                   status>>

IsCompleteStatusSwapped(exc) ==
    IF isinstance(exc, "TranslateError") THEN "invalid"
    ELSE IF isinstance(exc, "IncompleteSyntaxError") THEN "incomplete"
    ELSE IF exc = NoExc THEN "complete"
    ELSE "escaped"

\* the except clauses of do_is_complete, in their order (kernel.py:312-317)
IsCompleteStatus(exc) ==
    IF isinstance(exc, "IncompleteSyntaxError") THEN "incomplete"
    ELSE IF isinstance(exc, "TranslateError") THEN "invalid"
    ELSE IF exc = NoExc THEN "complete"
    ELSE "escaped"

\* the generator has ended: do_is_complete returns (kernel.py:312-317); the
\* evaluating consumer's loop is over
ConsumerFinish ==
    /\ UNCHANGED not_parse_vars
    /\ control = "consumer"
    /\ gen_pc = "closed"
    /\ outbox = <<>>
    /\ status' = IF consumer = "list" THEN IsCompleteStatus(gen_raised) ELSE "none"
    /\ control' = "returned"
    /\ UNCHANGED <<consumer, code, gen_pc, lines, idx, query, incomplete_exc,
                   expression, gen_raised, outbox, collected, definitions,
                   requests, trail>>

\* the caller has its answer and the kernel waits for the next request
ParseIdle ==
    /\ UNCHANGED not_parse_vars
    /\ control = "returned"
    /\ control' = "idle"
    /\ consumer' = "list"
    /\ code' = <<>>
    /\ gen_pc' = "none"
    /\ lines' = <<>>
    /\ idx' = 0
    /\ query' = <<>>
    /\ incomplete_exc' = NoExc
    /\ expression' = NoExpression
    /\ gen_raised' = NoExc
    /\ outbox' = <<>>
    /\ collected' = <<>>
    /\ definitions' = 0
    /\ requests' = 0
    /\ trail' = <<>>
    /\ status' = "none"

ParseNext ==
    \/ StartParseLines
    \/ ParseIdle
    \/ GenStart
    \/ LineEmpty
    \/ LineContinuation
    \/ ParseIncomplete
    \/ ParseError
    \/ ParseNothing
    \/ ParseYield
    \/ ResumeAfterYield
    \/ RaiseIncomplete
    \/ RaiseStopIteration
    \/ ConsumerNext
    \/ ConsumerTake
    \/ ConsumerFinish

SpecParse == Init /\ [][ParseNext]_vars

(***************************************************************************)
(* Properties of parse_lines and do_is_complete.                           *)
(***************************************************************************)
SameValue(x, y) == x.type = y.type /\ x.str = y.str /\ x.list = y.list

\* the value v holds the text t and nothing else, as a str or as its only line
HoldsText(v, t) == SameValue(v, StrVal(t)) \/ SameValue(v, ListVal(<<t>>))

\* a line that is not empty and carries no continuation marker
Unbroken(l) == l # <<>> /\ ~endswith(l, BACKSLASH)

\* the loop of parse_lines has consumed every line
RanOut == gen_pc = "closed" /\ idx = Len(lines)

Attempted(e) == e.kind \in {"incomplete", "error", "nothing", "yield"}
Succeeded(e) == e.kind \in {"nothing", "yield"}

\* the three outcomes of processing a line
Yielded(e) == e.kind = "yield"
CarriedForward(e) == e.kind # "error" /\ e.after # NoExc
RaisedError(e) == e.kind = "error"

\* C1 (as claimed): an input of N unbroken lines, each accepted by the parser
\* as a statement, yields exactly N statements and the k-th is the parse of
\* the k-th line.
C1_Original ==
    ( /\ control = "returned"
      /\ gen_raised = NoExc
      /\ \A k \in 1..Len(lines) : Unbroken(lines[k])
      /\ \A k \in 1..Len(trail) : Yielded(trail[k]) )
    => /\ Len(collected) = Len(lines)
       /\ \A k \in 1..Len(collected) :
             HoldsText(collected[k].source, lines[k])

\* C3: do_is_complete returns one of 'complete', 'incomplete', 'invalid' and
\* no exception escapes it: 'incomplete' exactly when the lines ran out with
\* an incomplete condition recorded, 'invalid' exactly when a parse attempt
\* failed with a TranslateError that is no IncompleteSyntaxError, 'complete'
\* exactly when the lines ran out with no incomplete condition recorded.
C3_StatusExact ==
    (control = "returned" /\ consumer = "list")
    => /\ status \in {"complete", "incomplete", "invalid"}
       /\ status = "incomplete" <=> (RanOut /\ incomplete_exc # NoExc)
       /\ status = "invalid" <=>
             (trail # <<>> /\ RaisedError(trail[Len(trail)]) /\ idx < Len(lines))
       /\ status = "complete" <=> (RanOut /\ incomplete_exc = NoExc)

C3_Witness ==
    /\ control = "returned"
    /\ consumer = "list"
    /\ status = "incomplete"
    /\ incomplete_exc.origin = "parser"
    /\ Len(collected) = 1

\* the last non-empty line either ended with a backslash or made the parser
\* report incomplete syntax
LastLineIncomplete ==
    \E k \in 1..Len(lines) :
        /\ lines[k] # <<>>
        /\ \A j \in (k + 1)..Len(lines) : lines[j] = <<>>
        /\ \/ endswith(lines[k], BACKSLASH)
           \/ trail[k].kind = "incomplete"

\* the statements handed out so far
Produced == Len(collected) + Len(outbox)

YieldingLines ==
    Cardinality({k \in 1..Len(trail) : Yielded(trail[k])})
    + (IF gen_pc = "yield" THEN 1 ELSE 0)

\* C4: parse_lines raises the incomplete condition, and only after the last
\* line, exactly when the last non-empty line ended with a backslash or made
\* the parser report incomplete syntax; a condition recorded earlier never
\* survives a later successful parse; a line that records the condition
\* yields nothing, and every statement completed earlier has been handed out
\* before the raise.
C4_IncompleteAtEnd ==
    /\ isinstance(gen_raised, "IncompleteSyntaxError") => RanOut
    /\ RanOut => (isinstance(gen_raised, "IncompleteSyntaxError")
                    <=> LastLineIncomplete)
    /\ \A k \in 1..Len(trail) : Succeeded(trail[k]) => trail[k].after = NoExc
    /\ Produced = YieldingLines
    /\ (RanOut /\ control = "returned") =>
            (outbox = <<>> /\ Len(collected) = YieldingLines)

C4_Witness ==
    /\ control = "returned"
    /\ isinstance(gen_raised, "IncompleteSyntaxError")
    /\ Len(collected) = 1
    /\ Len(trail) = 3
    /\ trail[1].kind = "incomplete"
    /\ trail[2].kind = "yield"
    /\ trail[3].kind = "continuation"

\* C5 (as claimed): no parse is attempted on a line ending in a backslash,
\* and every parse attempt is made on the accumulated buffer, so that the
\* statement yielded is the parse of the buffer.
C5_Original ==
    /\ \A k \in 1..Len(trail) :
          /\ trail[k].kind = "continuation" => ~Attempted(trail[k])
          /\ Attempted(trail[k]) =>
                HoldsText(trail[k].feeder, trail[k].buffer)
    /\ gen_pc = "yield" => HoldsText(expression.source, query)

\* C6 (as claimed): processing a line produces exactly one of: a statement
\* yielded, an incomplete condition carried forward, a terminal error raised.
C6_Original ==
    \A k \in 1..Len(trail) :
        LET e == trail[k]
            n == (IF Yielded(e) THEN 1 ELSE 0)
                 + (IF CarriedForward(e) THEN 1 ELSE 0)
                 + (IF RaisedError(e) THEN 1 ELSE 0)
        IN  n = 1

\* C6 (amended): processing a line produces at most one of the three
\* outcomes, and none of them exactly when the line is empty while no
\* incomplete condition is recorded or when the parse succeeds with no
\* statement (None).
C6_Amended ==
    \A k \in 1..Len(trail) :
        LET e == trail[k]
            n == (IF Yielded(e) THEN 1 ELSE 0)
                 + (IF CarriedForward(e) THEN 1 ELSE 0)
                 + (IF RaisedError(e) THEN 1 ELSE 0)
        IN  /\ n <= 1
            /\ n = 0 <=> \/ e.kind = "empty" /\ e.before = NoExc
                         \/ e.kind = "nothing"

C6_Witness ==
    /\ Len(trail) = 3
    /\ trail[1].kind = "continuation"
    /\ trail[2].kind = "yield"
    /\ trail[3].kind = "empty"
    /\ trail[3].before = NoExc

\* C7: statements are produced one at a time and on request: the generator
\* never has produced more statements than next() was called, at most one
\* statement waits to be returned, and with a consumer that evaluates each
\* statement before asking for the next, the k-th statement was parsed under
\* the definitions left by the evaluation of the first k - 1.
C7_Lazy ==
    /\ Produced <= requests
    /\ Len(outbox) <= 1
    /\ control = "generator" => outbox = <<>>
    /\ consumer = "evaluate" =>
          /\ \A k \in 1..Len(collected) : collected[k].definitions = k - 1
          /\ \A k \in 1..Len(outbox) : outbox[k].definitions = Len(collected)

C7_Witness ==
    /\ consumer = "evaluate"
    /\ control = "generator"
    /\ gen_pc = "loop"
    /\ Len(collected) = 2
    /\ definitions = 2
    /\ idx < Len(lines)


\* C15: an empty line adds exactly one space to the buffer and nothing
\* else: no parse is attempted, nothing is yielded, the recorded incomplete
\* condition stays as it was, and only the loop moves on to the next line;
\* so no more statements are yielded than there are lines that are not
\* empty ('1', '', '2' yields two statements at most).
C15_EmptyLineFrame ==
    /\ [][(InLoop /\ line = <<>>) =>
            /\ query' = query \o <<" ">>
            /\ idx' = idx + 1
            /\ UNCHANGED <<control, consumer, code, gen_pc, lines,
                           incomplete_exc, expression, gen_raised, outbox,
                           collected, definitions, requests, status>>]_vars
    /\ [](/\ \A k \in 1..Len(trail) :
                trail[k].kind = "empty" =>
                    /\ lines[k] = <<>>
                    /\ trail[k].feeder = NoVal
                    /\ ~Yielded(trail[k])
                    /\ trail[k].after = trail[k].before
          /\ Produced <= Cardinality({k \in 1..Len(lines) : lines[k] # <<>>}))

\* two statements with an empty line between them, both handed out
C15_Witness ==
    /\ control = "returned"
    /\ Len(lines) = 3
    /\ lines[2] = <<>>
    /\ Len(trail) = 3
    /\ trail[2].kind = "empty"
    /\ trail[2].buffer = <<" ">>
    /\ Len(collected) = 2


\* C17 (as claimed): a line that leaves the buffer ending in a backslash
\* has the backslashes stripped and records an incomplete condition at the
\* last character of the shortened buffer: its position P satisfies
\* 0 <= P < length of the buffer, a buffer of backslashes only included.
C17_Original ==
    \A k \in 1..Len(trail) :
        trail[k].kind = "continuation" =>
            /\ ~endswith(trail[k].buffer, BACKSLASH)
            /\ trail[k].after.cls = "IncompleteSyntaxError"
            /\ trail[k].after.pos = Len(trail[k].buffer) - 1
            /\ 0 <= trail[k].after.pos
            /\ trail[k].after.pos < Len(trail[k].buffer)


(***************************************************************************)
(* The tokeniser as find_symbol_name uses it (kernel.py:334, 341, 347):    *)
(* Tokeniser(feeder).next() skips blanks and returns the next token, with  *)
(* its tag, text and start offset, and leaves tokeniser.pos behind it; at  *)
(* the end of the code it returns the END token; on a character that       *)
(* starts no token it raises ScanError with tokeniser.pos behind that      *)
(* character.  Offsets count from 0.                                       *)
(***************************************************************************)
\* the namespace separator, the grave accent U+0060 (a string of the
\* specification language cannot hold that character itself)
BACKTICK == "BACKTICK"
Letters == {"S", "y", "s", "t", "e", "m", "i", "n", "C", "o", "x"}
Digits == {"1", "2"}
\* characters that are a token of their own
Operators == {"+", "[", "]"}

\* kernel.py:287
system_prefix == <<"S", "y", "s", "t", "e", "m", BACKTICK>>

\* the pieces the code under the cursor is put together from
Pieces == {<<"S">>, <<"1">>, <<" ">>, <<BACKTICK>>, system_prefix}

RECURSIVE Concats(_)
Concats(n) ==
    IF n = 0 THEN {<<>>}
    ELSE Concats(n - 1) \cup {c \o p : c \in Concats(n - 1), p \in Pieces}

\* the codes of the doctests of find_symbol_name (kernel.py:325, 328, 331)
doctests ==
    { <<"1", " ", "+", " ", "S", "i", "n">>,
      <<"1", " ", "+", " ", BACKTICK, " ", "S", "i", "n", "[", "C", "o", "s",
        "[", "2", "]", "]", " ", "+", " ", "x">>,
      <<"S", "i", "n", " ", BACKTICK>> }

ResolveCodes == Concats(MaxPieces) \cup doctests

CharAt(c, p) == c[p + 1]

\* the offset of the first character at or after p that is not a blank
SkipBlank(c, p) ==
    LET skip[q \in 0..Len(c)] ==
            IF q < Len(c) /\ CharAt(c, q) = " " THEN skip[q + 1] ELSE q
    IN  skip[p]

\* the end of the run of characters of set that starts at offset p
RunEnd(c, p, set) ==
    LET run[q \in 0..Len(c)] ==
            IF q < Len(c) /\ CharAt(c, q) \in set THEN run[q + 1] ELSE q
    IN  run[p]

\* the end of a symbol base (a letter, then letters and digits) at p, or None
BaseEnd(c, p) ==
    LET base[q \in 0..Len(c)] ==
            IF q < Len(c) /\ CharAt(c, q) \in Letters
            THEN RunEnd(c, q + 1, Letters \cup Digits)
            ELSE None
    IN  base[p]

\* the end of the longest sequence of separator-and-base parts that starts at offset e
ContextsEnd(c, e) ==
    LET parts[q \in 0..Len(c)] ==
            IF q < Len(c) /\ CharAt(c, q) = BACKTICK /\ BaseEnd(c, q + 1) # None
            THEN parts[BaseEnd(c, q + 1)]
            ELSE q
    IN  parts[e]

\* the end of the symbol (an optional separator, a base, then separator-and-base parts) that starts at offset p, or None
SymbolEnd(c, p) ==
    LET symbol[q \in 0..Len(c)] ==
            IF BaseEnd(c, q) = None THEN None ELSE ContextsEnd(c, BaseEnd(c, q))
    IN  symbol[IF p < Len(c) /\ CharAt(c, p) = BACKTICK THEN p + 1 ELSE p]

Token(tag, text, pos) == [tag |-> tag, text |-> text, pos |-> pos]

\* tokeniser.next() with tokeniser.pos = p: the token or the ScanError, and
\* tokeniser.pos afterwards
TokeniserNext(c, p) ==
    LET next[b \in 0..Len(c)] ==
            IF b >= Len(c)
            THEN [raised |-> "None", token |-> Token("END", <<>>, Len(c)), pos |-> b]
            ELSE IF SymbolEnd(c, b) # None
            THEN [raised |-> "None",
                  token |-> Token("Symbol", SubSeq(c, b + 1, SymbolEnd(c, b)), b),
                  pos |-> SymbolEnd(c, b)]
            ELSE IF CharAt(c, b) \in Digits
            THEN [raised |-> "None",
                  token |-> Token("Number", SubSeq(c, b + 1, RunEnd(c, b, Digits)), b),
                  pos |-> RunEnd(c, b, Digits)]
            ELSE IF CharAt(c, b) \in Operators
            THEN [raised |-> "None",
                  token |-> Token("Operator", SubSeq(c, b + 1, b + 1), b),
                  pos |-> b + 1]
            ELSE [raised |-> "ScanError", token |-> Token("None", <<>>, b), pos |-> b + 1]
    IN  next[SkipBlank(c, p)]

(***************************************************************************)
(* find_symbol_name (kernel.py:319-353) and do_complete (kernel.py:280-306)*)
(***************************************************************************)
\* do_complete(code, cursor_pos) calls find_symbol_name (kernel.py:281), which
\* sets up its tokeniser and locals (kernel.py:334-338)
SharedTokeniser(c) == IF prior = NoPrior THEN 0 ELSE Len(c)

\* tokeniser.pos of Tokeniser(SingleLineFeeder(code)), a new object for
\* every call (kernel.py:334)
NewTokeniser(c) == 0

StartComplete ==
    /\ UNCHANGED not_resolve_vars
    /\ fs_pc = "idle"
    /\ \E c \in ResolveCodes :
          /\ fs_code' = c
          /\ \E p \in 0..(Len(c) + 1) : cursor_pos' = p
          /\ tokeniser_pos' = NewTokeniser(c)
    /\ handler' = "do_complete"
    /\ fs_pc' = "scan"
    /\ start_pos' = None
    /\ end_pos' = None
    /\ name' = NoneName
    /\ UNCHANGED reply

IsEndNever(token) == FALSE

PassesCursor(pos, cursor) == pos > cursor

\* kernel.py:347
ReachesCursor(pos, cursor) == pos >= cursor

\* kernel.py:344
IsEnd(token) == token.tag = "END"

\* one iteration of the while loop (kernel.py:339-352)
FindSymbolStep ==
    /\ UNCHANGED not_resolve_vars
    /\ fs_pc = "scan"
    /\ LET r == TokeniserNext(fs_code, tokeniser_pos)
           token == r.token
       IN  /\ tokeniser_pos' = r.pos
           /\ IF r.raised = "ScanError"
              THEN \* kernel.py:342-343
                   UNCHANGED <<fs_pc, start_pos, end_pos, name>>
              ELSE IF IsEnd(token)
              THEN \* kernel.py:344-345
                   /\ fs_pc' = "done"
                   /\ UNCHANGED <<start_pos, end_pos, name>>
              ELSE IF ReachesCursor(r.pos, cursor_pos)
              THEN \* kernel.py:347-352
                   /\ fs_pc' = "done"
                   /\ IF token.tag = "Symbol"
                      THEN /\ name' = token.text
                           /\ start_pos' = token.pos
                           /\ end_pos' = r.pos
                      ELSE UNCHANGED <<start_pos, end_pos, name>>
              ELSE UNCHANGED <<fs_pc, start_pos, end_pos, name>>
    /\ UNCHANGED <<handler, fs_code, cursor_pos, reply>>

\* the names of builtins, in the order the dictionary is iterated
builtins ==
    << system_prefix \o <<"S">>,
       system_prefix \o <<"S", "S">>,
       <<"S", BACKTICK, "S">>,
       system_prefix \o <<"S", "1">> >>

\* str.startswith
startswith(s, prefix) ==
    Len(s) >= Len(prefix) /\ SubSeq(s, 1, Len(prefix)) = prefix

\* the namespace separator occurs in name (kernel.py:264, 288)
HasContext(n) == \E i \in 1..Len(n) : n[i] = BACKTICK

RemoveSystemAlways(n) == TRUE

\* kernel.py:286-290: remove_system
RemoveSystem(n) == ~HasContext(n)

RECURSIVE Matches(_, _)
\* kernel.py:292-295
Matches(keys, prefix) ==
    IF keys = <<>> THEN <<>>
    ELSE (IF startswith(Head(keys), prefix) THEN <<Head(keys)>> ELSE <<>>)
         \o Matches(Tail(keys), prefix)

\* match[len(system_prefix):]
Strip(match) == SubSeq(match, Len(system_prefix) + 1, Len(match))

\* do_complete after find_symbol_name has returned (kernel.py:283-306)
CompleteReturn ==
    /\ UNCHANGED not_resolve_vars
    /\ handler = "do_complete"
    /\ fs_pc = "done"
    /\ fs_pc' = "returned"
    /\ IF name = NoneName
       THEN reply' = [status |-> "error", matches |-> <<>>,
                      cursor_start |-> None, cursor_end |-> None]
       ELSE LET qualified == IF ~HasContext(name) THEN system_prefix \o name
                             ELSE name
                found == Matches(builtins, qualified)
                matches == IF RemoveSystem(name)
                           THEN [i \in 1..Len(found) |-> Strip(found[i])]
                           ELSE found
            IN  reply' = [status |-> "ok", matches |-> matches,
                          cursor_start |-> start_pos, cursor_end |-> end_pos]
    /\ UNCHANGED <<handler, fs_code, cursor_pos, tokeniser_pos, start_pos,
                   end_pos, name>>

\* the reply is sent and the kernel waits for the next request
ResolveIdle ==
    /\ UNCHANGED not_resolve_vars
    /\ fs_pc = "returned"
    /\ handler' = "none"
    /\ fs_pc' = "idle"
    /\ fs_code' = <<>>
    /\ cursor_pos' = 0
    /\ tokeniser_pos' = 0
    /\ start_pos' = None
    /\ end_pos' = None
    /\ name' = NoneName
    /\ reply' = [status |-> "none", matches |-> <<>>, cursor_start |-> None,
                 cursor_end |-> None]

ResolveNext ==
    \/ StartComplete
    \/ FindSymbolStep
    \/ CompleteReturn
    \/ ResolveIdle

SpecResolve == Init /\ [][ResolveNext]_vars

\* the while loop runs on: nothing in it waits
FairResolve == SpecResolve /\ WF_vars(FindSymbolStep)

\* the reply is sent and the kernel waits for the next request, as in
\* ResolveIdle; the history takes note of the call: the first call on a
\* single piece with the cursor behind its first character is remembered,
\* and a later call with other arguments is noted
RepeatIdle ==
    /\ UNCHANGED <<parse_vars, exec_vars>>
    /\ fs_pc = "returned"
    /\ prior' =
          IF prior # NoPrior
          THEN [prior EXCEPT !.others =
                   @ \/ fs_code # prior.code \/ cursor_pos # prior.cursor_pos]
          ELSE IF fs_code \in Pieces /\ cursor_pos = 1
          THEN [code |-> fs_code, cursor_pos |-> cursor_pos,
                start_pos |-> start_pos, end_pos |-> end_pos, name |-> name,
                others |-> FALSE]
          ELSE NoPrior
    /\ handler' = "none"
    /\ fs_pc' = "idle"
    /\ fs_code' = <<>>
    /\ cursor_pos' = 0
    /\ tokeniser_pos' = 0
    /\ start_pos' = None
    /\ end_pos' = None
    /\ name' = NoneName
    /\ reply' = [status |-> "none", matches |-> <<>>, cursor_start |-> None,
                 cursor_end |-> None]

RepeatNext ==
    \/ StartComplete
    \/ FindSymbolStep
    \/ CompleteReturn
    \/ RepeatIdle

\* calls of find_symbol_name one after the other, with the history kept
SpecRepeat == Init /\ [][RepeatNext]_vars

(***************************************************************************)
(* do_inspect (kernel.py:258-278)                                          *)
(***************************************************************************)
\* do_inspect(code, cursor_pos) calls find_symbol_name (kernel.py:259), which
\* sets up its tokeniser and locals (kernel.py:334-338)
StartInspect ==
    /\ UNCHANGED not_resolve_vars
    /\ fs_pc = "idle"
    /\ \E c \in ResolveCodes :
          /\ fs_code' = c
          /\ \E p \in 0..(Len(c) + 1) : cursor_pos' = p
          /\ tokeniser_pos' = NewTokeniser(c)
    /\ handler' = "do_inspect"
    /\ fs_pc' = "scan"
    /\ start_pos' = None
    /\ end_pos' = None
    /\ name' = NoneName
    /\ UNCHANGED reply

InspectNameRaw(n) == n

\* the name do_inspect looks up (kernel.py:264-265)
InspectName(n) == IF ~HasContext(n) THEN system_prefix \o n ELSE n

\* do_inspect after find_symbol_name has returned (kernel.py:261-278)
InspectReturn ==
    /\ UNCHANGED not_resolve_vars
    /\ handler = "do_inspect"
    /\ fs_pc = "done"
    /\ fs_pc' = "returned"
    /\ reply' =
          IF name = NoneName
          THEN [status |-> "error"]
          ELSE IF \E i \in 1..Len(builtins) : builtins[i] = InspectName(name)
          THEN [status |-> "ok", found |-> TRUE, data |-> <<"text/plain">>,
                metadata |-> <<>>]
          ELSE [status |-> "ok", found |-> FALSE, data |-> <<>>,
                metadata |-> <<>>]
    /\ UNCHANGED <<handler, fs_code, cursor_pos, tokeniser_pos, start_pos,
                   end_pos, name>>

InspectNext ==
    \/ StartInspect
    \/ FindSymbolStep
    \/ InspectReturn
    \/ ResolveIdle

SpecInspect == Init /\ [][InspectNext]_vars

(***************************************************************************)
(* Properties of find_symbol_name and do_complete.                         *)
(***************************************************************************)

C8_Original ==
    (fs_pc \in {"done", "returned"} /\ name # NoneName)
    => (start_pos <= cursor_pos /\ cursor_pos <= end_pos)

Registry == {builtins[i] : i \in 1..Len(builtins)}

SeqToSet(q) == {q[i] : i \in 1..Len(q)}

\* C9: when do_complete resolves a symbol, its matches are exactly the
\* registry names that start with the resolved prefix (the System prefix prepended
\* when the raw name has no namespace separator), each once; with a
\* synthesized prefix every match has the System prefix stripped, with an explicit one
\* no match is altered; cursor_start and cursor_end are the span of the raw
\* token in the code.
C9_Matches ==
    (fs_pc = "returned" /\ handler = "do_complete" /\ name # NoneName)
    => /\ reply.status = "ok"
       /\ Len(reply.matches) = Cardinality(SeqToSet(reply.matches))
       /\ IF HasContext(name)
          THEN SeqToSet(reply.matches)
                  = {k \in Registry : startswith(k, name)}
          ELSE /\ \A k \in Registry :
                     startswith(k, system_prefix \o name)
                     => \E i \in 1..Len(reply.matches) :
                            system_prefix \o reply.matches[i] = k
               /\ \A i \in 1..Len(reply.matches) :
                     /\ system_prefix \o reply.matches[i] \in Registry
                     /\ startswith(reply.matches[i], name)
       /\ reply.cursor_start >= 0
       /\ reply.cursor_end = reply.cursor_start + Len(name)
       /\ reply.cursor_end <= Len(fs_code)
       /\ SubSeq(fs_code, reply.cursor_start + 1, reply.cursor_end) = name

C9_Witness ==
    /\ fs_pc = "returned"
    /\ handler = "do_complete"
    /\ name = <<"S">>
    /\ Len(reply.matches) = 3
    /\ reply.cursor_start > 0

C9_WitnessExplicit ==
    /\ fs_pc = "returned"
    /\ handler = "do_complete"
    /\ HasContext(name)
    /\ Len(reply.matches) >= 1

(***************************************************************************)
(* do_execute (kernel.py:127-157) and the callbacks of KernelOutput        *)
(* (kernel.py:75-85, 159-172, 233-256).  The engine runs inside            *)
(* evaluation.parse_evaluate (kernel.py:144): it calls the output methods  *)
(* as it goes, advances the line number, and returns a result or raises.   *)
\* the tokens of code c from offset p on, END left out, each with the offset
\* behind it; characters that start no token are passed over
TokensFrom(c, p) ==
    LET rest[q \in 0..Len(c)] ==
            LET r == TokeniserNext(c, q)
            IN  IF r.raised = "ScanError" THEN rest[r.pos]
                ELSE IF r.token.tag = "END" THEN <<>>
                ELSE <<[tag |-> r.token.tag, text |-> r.token.text,
                        pos |-> r.token.pos, end |-> r.pos]>> \o rest[r.pos]
    IN  rest[p]

NoSymbol == <<None, None, NoneName>>

\* what find_symbol_name is to return: the span and text of the first token
\* that ends at or behind the cursor if it is a Symbol, else no symbol
AtCursor(c, cursor) ==
    LET tokens == TokensFrom(c, 0)
        reaching == {i \in 1..Len(tokens) : tokens[i].end >= cursor}
    IN  IF reaching = {} THEN NoSymbol
        ELSE LET first == CHOOSE i \in reaching : \A j \in reaching : i <= j
                 token == tokens[first]
             IN  IF token.tag = "Symbol"
                 THEN <<token.pos, token.end, token.text>>
                 ELSE NoSymbol

C16_Inspect ==
    (handler = "do_inspect" /\ fs_pc = "returned") =>
        /\ reply.status \in {"ok", "error"}
        /\ reply.status = "error" <=> name = NoneName
        /\ reply.status = "ok" =>
              /\ reply.found <=>
                    \/ HasContext(name) /\ name \in Registry
                    \/ ~HasContext(name) /\ system_prefix \o name \in Registry
              /\ ~reply.found => reply.data = <<>>

\* a symbol written without a namespace and found under the System prefix
C16_Witness ==
    /\ handler = "do_inspect"
    /\ fs_pc = "returned"
    /\ name # NoneName
    /\ ~HasContext(name)
    /\ reply.status = "ok"
    /\ reply.found

(***************************************************************************)
Send(msg_type, content) == Append(iopub, [msg_type |-> msg_type, content |-> content])

\* do_execute up to the call of parse_evaluate (kernel.py:131-144)
StartExecute ==
    /\ UNCHANGED not_exec_vars
    /\ ex_pc = "idle"
    /\ ex_pc' = "evaluating"
    /\ response' = NewResponse
    /\ iopub' = <<>>
    /\ emitted' = <<>>
    /\ raised' = "None"
    /\ result' = "unset"
    /\ UNCHANGED <<line_no, prev_status>>

CatchesValueErrorOnly(exc) == exc = "ValueError"

\* except Exception (kernel.py:147): ValueError derives from Exception
Catches(exc) == exc \in {"Exception", "ValueError"}

\* the rest of do_execute once the try block is left with exception exc, or
\* with none (kernel.py:147-157): the response returned, or nothing when the
\* exception is not caught
Respond(exc) ==
    IF exc = "None"
    THEN [NewResponse EXCEPT !.status = "ok", !.execution_count = line_no]
    ELSE IF Catches(exc)
    THEN [NewResponse EXCEPT !.status = "error", !.ename = "System:exception",
                             !.traceback = TRUE, !.execution_count = line_no]
    ELSE NewResponse

Leave(exc) == IF exc = "None" \/ Catches(exc) THEN "returned" ELSE "escaped"

Evaluating == ex_pc = "evaluating" /\ Len(emitted) < MaxEvents

\* KernelOutput.out with a message or a print (kernel.py:78-79, 160-169, 172)
EngineOut ==
    /\ UNCHANGED not_exec_vars
    /\ Evaluating
    /\ \E kind \in {"message", "print"} :
          /\ emitted' = Append(emitted, kind)
          /\ iopub' = Send("stream", IF kind = "message" THEN "stderr" ELSE "stdout")
    /\ UNCHANGED <<ex_pc, response, line_no, raised, result, prev_status>>

\* KernelOutput.out with an output that is neither (kernel.py:170-171): the
\* ValueError leaves out_callback and parse_evaluate and reaches the except
\* clause of do_execute
EngineOutUnknown ==
    /\ UNCHANGED not_exec_vars
    /\ Evaluating
    /\ emitted' = Append(emitted, "unknown")
    /\ raised' = "ValueError"
    /\ response' = Respond("ValueError")
    /\ ex_pc' = Leave("ValueError")
    /\ result' = "empty"
    /\ UNCHANGED <<iopub, line_no, prev_status>>

\* KernelOutput.clear_output (kernel.py:81-82, 243-246)
EngineClearOutput ==
    /\ UNCHANGED not_exec_vars
    /\ Evaluating
    /\ \E wait \in BOOLEAN :
          /\ emitted' = Append(emitted, "clear_output")
          /\ iopub' = Send("clear_output", IF wait THEN "wait" ELSE "now")
    /\ UNCHANGED <<ex_pc, response, line_no, raised, result, prev_status>>

\* KernelOutput.display_data (kernel.py:84-85, 248-256), with
\* reconfigure_mathjax (kernel.py:208-231) first
EngineDisplayData ==
    /\ UNCHANGED not_exec_vars
    /\ Evaluating
    /\ emitted' = Append(emitted, "display_data")
    /\ iopub' = iopub \o <<[msg_type |-> "display_data", content |-> "mathjax"],
                           [msg_type |-> "display_data", content |-> "data"]>>
    /\ UNCHANGED <<ex_pc, response, line_no, raised, result, prev_status>>

\* the engine evaluates a statement and advances the line number
EngineNextLine ==
    /\ UNCHANGED not_exec_vars
    /\ ex_pc = "evaluating"
    /\ line_no < MaxLineNo
    /\ line_no' = line_no + 1
    /\ UNCHANGED <<ex_pc, response, iopub, emitted, raised, result, prev_status>>

TruthyAlways(value) == TRUE

\* kernel.py:145: "if result"
Truthy(value) == value # "empty"

\* parse_evaluate returns (kernel.py:144-146, 153-157): a result that is not
\* empty goes to result_callback (kernel.py:233-241), with
\* reconfigure_mathjax (kernel.py:208-231) first
EngineReturn ==
    /\ UNCHANGED not_exec_vars
    /\ ex_pc = "evaluating"
    /\ \E value \in {"empty", "result"} :
          /\ result' = value
          /\ iopub' = IF Truthy(value)
                      THEN iopub \o <<[msg_type |-> "display_data", content |-> "mathjax"],
                                      [msg_type |-> "execute_result", content |-> "result"]>>
                      ELSE iopub
    /\ response' = Respond("None")
    /\ ex_pc' = Leave("None")
    /\ UNCHANGED <<emitted, line_no, raised, prev_status>>

\* parse_evaluate raises (kernel.py:144, 147-152)
EngineRaise ==
    /\ UNCHANGED not_exec_vars
    /\ ex_pc = "evaluating"
    /\ raised' = "Exception"
    /\ response' = Respond("Exception")
    /\ ex_pc' = Leave("Exception")
    /\ result' = "empty"
    /\ UNCHANGED <<iopub, emitted, line_no, prev_status>>

\* the response is sent and the kernel waits for the next request
ExecIdle ==
    /\ UNCHANGED not_exec_vars
    /\ ex_pc = "returned"
    /\ ex_pc' = "idle"
    /\ prev_status' = response.status
    /\ response' = NewResponse
    /\ iopub' = <<>>
    /\ emitted' = <<>>
    /\ raised' = "None"
    /\ result' = "unset"
    /\ UNCHANGED line_no

ExecNext ==
    \/ StartExecute
    \/ EngineOut
    \/ EngineOutUnknown
    \/ EngineClearOutput
    \/ EngineDisplayData
    \/ EngineNextLine
    \/ EngineReturn
    \/ EngineRaise
    \/ ExecIdle

SpecExec == Init /\ [][ExecNext]_vars

(***************************************************************************)
(* Properties of do_execute.                                               *)
(***************************************************************************)

\* C10: an exception raised while an execute request is evaluated never
\* leaves do_execute: the request returns a response with status 'error',
\* ename 'System:exception', a traceback and the execution count; the status
\* is 'ok' exactly when nothing was raised; and the kernel goes on to the
\* next request.
C10_ErrorResponse ==
    /\ ex_pc # "escaped"
    /\ ex_pc = "returned" =>
          /\ response.status \in {"ok", "error"}
          /\ response.status = "ok" <=> raised = "None"
          /\ response.status = "error" =>
                /\ response.ename = "System:exception"
                /\ response.traceback
          /\ response.execution_count = line_no
          /\ ENABLED ExecIdle
    /\ ex_pc = "idle" => ENABLED StartExecute

\* an engine exception answered with an error response, by a kernel whose
\* previous request had ended in an error as well
C10_Witness ==
    /\ ex_pc = "returned"
    /\ raised = "Exception"
    /\ response.status = "error"
    /\ prev_status = "error"
    /\ line_no = 1

\* the output events that are a message or a print
IsStreamEvent(kind) == kind \in {"message", "print"}

\* C11 (as claimed): an output event that is neither a message nor a print
\* gets no stream message and, during an execute request, leaves do_execute
\* as an exception: the request returns no response.
C11_Original ==
    (\E i \in 1..Len(emitted) : emitted[i] = "unknown") =>
        /\ Len(SelectSeq(iopub, LAMBDA m : m.msg_type = "stream"))
              = Len(SelectSeq(emitted, IsStreamEvent))
        /\ ex_pc = "escaped"
        /\ response = NewResponse

\* what an output event is to show as on the side channel
EventKey(kind) ==
    IF kind = "message" THEN "stderr" ELSE IF kind = "print" THEN "stdout" ELSE kind

\* what a message on the side channel shows as
MessageKey(m) == IF m.msg_type = "stream" THEN m.content ELSE m.msg_type

\* the output events that out_callback, clear_output_callback and
\* display_data_callback answer with a message
Answered == SelectSeq(emitted, LAMBDA kind : kind # "unknown")

\* the messages on the side channel that answer an output event
Answers ==
    SelectSeq(iopub, LAMBDA m : m.msg_type # "execute_result" /\ m.content # "mathjax")

ExecuteResults == {i \in 1..Len(iopub) : iopub[i].msg_type = "execute_result"}

\* C12: at every moment of an execute request the stream, clear_output and
\* display_data messages sent are those of the output events emitted so far,
\* in the order emitted, so all of them are sent when do_execute returns;
\* the execute_result is sent at most once, as the last message, and only
\* when evaluation returned a non-empty result without raising; and nothing
\* is sent once do_execute has returned.
C12_SideChannel ==
    /\ [](/\ Len(Answers) = Len(Answered)
          /\ \A i \in 1..Len(Answers) : MessageKey(Answers[i]) = EventKey(Answered[i])
          /\ Cardinality(ExecuteResults) <= 1
          /\ \A i \in ExecuteResults :
                /\ i = Len(iopub)
                /\ ex_pc = "returned"
                /\ raised = "None"
                /\ result = "result")
    /\ [][(ex_pc = "returned" \/ ex_pc = "idle") => iopub' = <<>>]_vars

\* a request that printed, displayed data and returned a result
C12_Witness ==
    /\ ex_pc = "returned"
    /\ emitted = <<"print", "display_data">>
    /\ result = "result"
    /\ ExecuteResults = {Len(iopub)}
    /\ Len(iopub) = 5

=============================================================================
